---- MODULE Spec2Model ----
(***************************************************************************)
(* Model of the skull terminal editor: the line buffer, the cursor        *)
(* navigation with variable-width characters, the viewport clamps of      *)
(* redraw, and the session loop of SkullEditor::run with its error exits. *)
(* Sequences are 1-based, the editor's indices are 0-based: line k of the *)
(* editor is lines[k + 1].                                                 *)
(***************************************************************************)
EXTENDS Integers, Sequences, FiniteSets

VARIABLES
    file,                 \* content of the file at file_path (main.rs)
    lines,                \* SkullEditor.lines
    cursor_column,        \* SkullEditor.cursor_column
    cursor_line,          \* SkullEditor.cursor_line
    view_pos,             \* SkullEditor.view_pos
    current_view_height,  \* SkullEditor.current_view_height
    term_height,          \* height returned by terminal::size() in the last redraw
    raw_mode,             \* process-wide raw input mode of the terminal
    save,                 \* local `save` of run
    content,              \* EditorResult.content once run has returned
    pc,                   \* position of the session: run, editing, confirm, returned, failed, exited
    event,                \* the last event returned by read()
    before                \* document and cursor when that event was read

vars == <<file, lines, cursor_column, cursor_line, view_pos, current_view_height,
          term_height, raw_mode, save, content, pc, event, before>>

----------------------------------------------------------------------------
(* Bounds of the model *)

MaxChars == 2

MaxLines == 3

MaxHeight == 2

MaxPlain == 5

MaxMixed == 2

MaxLoad == 3

MaxRun == 2

MaxGutter == 11

----------------------------------------------------------------------------
(* Characters.  "a" stands for any width-1 character, "W" for a wide       *)
(* (East-Asian, 2 cells) character, "z" for a zero-width (combining)       *)
(* character; TAB, LF and CR are the control characters themselves.        *)

TAB == "\t"

LF == "\n"

CR == "\r"

TabWidth == 4

\* the number of spaces redraw prints for a tab
TabCells == 4

Min(a, b) == IF a < b THEN a ELSE b

Max(a, b) == IF a > b THEN a ELSE b

\* UnicodeWidthChar::width: None for control characters, Some(n) otherwise
unicode_width(c) ==
    CASE c = "W" -> 2
      [] c = "z" -> 0
      [] c \in {TAB, LF, CR} -> -1      \* None
      [] OTHER -> 1

char_width(c) ==
    IF c = TAB THEN TabWidth
    ELSE IF unicode_width(c) = -1 THEN 1 ELSE unicode_width(c)

----------------------------------------------------------------------------
(* str::lines of the standard library: split after every "\n", then strip  *)
(* the "\n" and, only when a "\n" was stripped, one "\r" before it.        *)

\* the index of the first "\n" at or after index i, 0 when there is none
FirstLF(s, i) ==
    IF \E j \in i..Len(s) : s[j] = LF
    THEN CHOOSE j \in i..Len(s) : s[j] = LF /\ \A k \in i..(j - 1) : s[k] # LF
    ELSE 0

\* the pieces start at index 1 and after every "\n" that is not the last
\* character; each ends with the next "\n", or with the string
split_inclusive(s) ==
    LET starts == {i \in 1..Len(s) : i = 1 \/ s[i - 1] = LF}
        start(k) == CHOOSE i \in starts : Cardinality({j \in starts : j < i}) = k - 1
        piece(i) == IF FirstLF(s, i) = 0
                    THEN SubSeq(s, i, Len(s))
                    ELSE SubSeq(s, i, FirstLF(s, i))
    IN  [k \in 1..Cardinality(starts) |-> piece(start(k))]

strip_line(l) ==
    IF Len(l) > 0 /\ l[Len(l)] = LF
    THEN LET m == SubSeq(l, 1, Len(l) - 1)
         IN  IF Len(m) > 0 /\ m[Len(m)] = CR THEN SubSeq(m, 1, Len(m) - 1) ELSE m
    ELSE l

str_lines(s) ==
    LET p == split_inclusive(s) IN [i \in 1..Len(p) |-> strip_line(p[i])]

----------------------------------------------------------------------------
(* The editor as a value: the fields of SkullEditor that the operations    *)
(* read and write.                                                         *)

\* new without the push of an empty line for an empty input
new_no_push(input) ==
    [lines |-> str_lines(input),
     cursor_column |-> 0,
     cursor_line |-> 0,
     view_pos |-> 0,
     current_view_height |-> 0]

new(input) ==
    LET ls == str_lines(input)
    IN  [lines |-> IF Len(ls) = 0 THEN <<<<>>>> ELSE ls,
         cursor_column |-> 0,
         cursor_line |-> 0,
         view_pos |-> 0,
         current_view_height |-> 0]

get_height(e) == Len(e.lines)

get_width(e) == Len(e.lines[e.cursor_line + 1])

RECURSIVE SumWidth(_)
SumWidth(s) == IF s = <<>> THEN 0 ELSE char_width(Head(s)) + SumWidth(Tail(s))

\* the offset taken through the character at the cursor (..= for ..)
get_cursor_offset_inclusive(e) ==
    SumWidth(SubSeq(e.lines[e.cursor_line + 1], 1,
                    Min(e.cursor_column + 1, Len(e.lines[e.cursor_line + 1]))))

get_cursor_offset(e) ==
    SumWidth(SubSeq(e.lines[e.cursor_line + 1], 1, e.cursor_column))

\* the scan stopping at a character that reaches the offset (>= for >)
RECURSIVE offset_scan_reaching(_, _, _, _)
offset_scan_reaching(line, i, real, offset) ==
    IF i > Len(line) THEN Len(line)
    ELSE IF real + char_width(line[i]) >= offset THEN i - 1
         ELSE offset_scan_reaching(line, i + 1, real + char_width(line[i]), offset)

\* the loop of offset_to_cursor: i is the 1-based index of the next
\* character, real the value of real_column before it
RECURSIVE offset_scan(_, _, _, _)
offset_scan(line, i, real, offset) ==
    IF i > Len(line) THEN Len(line)
    ELSE IF real + char_width(line[i]) > offset THEN i - 1
         ELSE offset_scan(line, i + 1, real + char_width(line[i]), offset)

\* a scan that counts the character that passes the offset
offset_to_cursor_past(e, offset) ==
    Min(offset_scan(e.lines[e.cursor_line + 1], 1, 0, offset) + 1,
        Len(e.lines[e.cursor_line + 1]))

offset_to_cursor(e, offset) ==
    offset_scan(e.lines[e.cursor_line + 1], 1, 0, offset)

\* move_left wrapping with a saturating line decrement instead of the
\* test cursor_line > 0
move_cursor_left_saturating(e) ==
    IF e.cursor_column > 0
    THEN [e EXCEPT !.cursor_column = @ - 1]
    ELSE LET e1 == [e EXCEPT !.cursor_line = Max(@ - 1, 0)]
         IN  [e1 EXCEPT !.cursor_column = Len(e1.lines[e1.cursor_line + 1])]

move_cursor_left(e) ==
    IF e.cursor_column > 0
    THEN [e EXCEPT !.cursor_column = @ - 1]
    ELSE IF e.cursor_line > 0
         THEN LET e1 == [e EXCEPT !.cursor_line = @ - 1]
              IN  [e1 EXCEPT !.cursor_column = get_width(e1)]
         ELSE e

move_cursor_right(e) ==
    IF e.cursor_column < get_width(e)
    THEN [e EXCEPT !.cursor_column = @ + 1]
    ELSE IF e.cursor_line + 1 < get_height(e)
         THEN [e EXCEPT !.cursor_column = 0, !.cursor_line = @ + 1]
         ELSE e

\* move_up keeping the character index instead of the display offset
move_cursor_up_by_index(e) ==
    IF e.cursor_line > 0
    THEN LET e1 == [e EXCEPT !.cursor_line = @ - 1]
         IN  [e1 EXCEPT !.cursor_column = Min(@, Len(e1.lines[e1.cursor_line + 1]))]
    ELSE [e EXCEPT !.cursor_column = 0]

move_cursor_up(e) ==
    IF e.cursor_line > 0
    THEN LET real_offset == get_cursor_offset(e)
             e1 == [e EXCEPT !.cursor_line = @ - 1]
         IN  [e1 EXCEPT !.cursor_column = offset_to_cursor(e1, real_offset)]
    ELSE [e EXCEPT !.cursor_column = 0]

move_cursor_down(e) ==
    IF e.cursor_line + 1 < get_height(e)
    THEN LET real_offset == get_cursor_offset(e)
             e1 == [e EXCEPT !.cursor_line = @ + 1]
         IN  [e1 EXCEPT !.cursor_column = offset_to_cursor(e1, real_offset)]
    ELSE [e EXCEPT !.cursor_column = get_width(e)]

\* Vec::insert, Vec::remove and Vec::split_off at a 0-based index
VecInsert(s, i, x) == SubSeq(s, 1, i) \o <<x>> \o SubSeq(s, i + 1, Len(s))

VecRemove(s, i) == SubSeq(s, 1, i) \o SubSeq(s, i + 2, Len(s))

\* add_character without the advance of the cursor
add_character_no_advance(e, c) ==
    [e EXCEPT !.lines[e.cursor_line + 1] = VecInsert(@, e.cursor_column, c)]

add_character(e, c) ==
    [e EXCEPT !.lines[e.cursor_line + 1] = VecInsert(@, e.cursor_column, c),
              !.cursor_column = @ + 1]

\* a new_line that copies the rest of the line instead of splitting it off
new_line_rest_copied(e) ==
    LET cur == e.lines[e.cursor_line + 1]
        rest == SubSeq(cur, e.cursor_column + 1, Len(cur))
    IN  [e EXCEPT !.lines = VecInsert(e.lines, e.cursor_line + 1, rest),
                  !.cursor_line = @ + 1,
                  !.cursor_column = 0]

new_line(e) ==
    LET cur == e.lines[e.cursor_line + 1]
        rest == SubSeq(cur, e.cursor_column + 1, Len(cur))
        kept == [e.lines EXCEPT ![e.cursor_line + 1] = SubSeq(cur, 1, e.cursor_column)]
    IN  [e EXCEPT !.lines = VecInsert(kept, e.cursor_line + 1, rest),
                  !.cursor_line = @ + 1,
                  !.cursor_column = 0]

\* erase_character whose join leaves cursor_line where it was
erase_character_line_kept(e) ==
    IF e.cursor_column > 0
    THEN [e EXCEPT !.cursor_column = @ - 1,
                   !.lines[e.cursor_line + 1] = VecRemove(@, e.cursor_column - 1)]
    ELSE IF e.cursor_line > 0
         THEN LET removed_line == e.lines[e.cursor_line + 1]
                  rest == VecRemove(e.lines, e.cursor_line)
                  joined == rest[e.cursor_line] \o removed_line
              IN  [e EXCEPT !.lines = [rest EXCEPT ![e.cursor_line] = joined],
                            !.cursor_column = Len(joined)]
         ELSE e

erase_character(e) ==
    IF e.cursor_column > 0
    THEN [e EXCEPT !.cursor_column = @ - 1,
                   !.lines[e.cursor_line + 1] = VecRemove(@, e.cursor_column - 1)]
    ELSE IF e.cursor_line > 0
         THEN LET removed_line == e.lines[e.cursor_line + 1]
                  rest == VecRemove(e.lines, e.cursor_line)
                  joined == rest[e.cursor_line] \o removed_line
              IN  [e EXCEPT !.lines = [rest EXCEPT ![e.cursor_line] = joined],
                            !.cursor_line = @ - 1,
                            !.cursor_column = Len(joined)]
         ELSE e

\* a view height without the floor of one row (.max(1) left out)
view_height_of_no_floor(e, height) == Min(height, get_height(e))

\* the view height computed by redraw from the terminal height
view_height_of(e, height) == Max(Min(height, get_height(e)), 1)

\* the first clamp: the window starts below the cursor line
clamp_1(vp, line) == vp > line

\* a first clamp that moves the window to the top of the document
view_pos_1_to_top(vp, line) ==
    IF clamp_1(vp, line) THEN 0 ELSE vp

view_pos_1(vp, line) == IF clamp_1(vp, line) THEN vp - (vp - line) ELSE vp

\* the second clamp: the window ends after the last line
clamp_2(vp, vh, dh) == vp + vh > dh

view_pos_2(vp, vh, dh) ==
    IF clamp_2(vp, vh, dh)
    THEN vp - ((vp + vh) - dh)
    ELSE vp

\* the third clamp: the window ends above the cursor line
clamp_3(vp, vh, line) == vp + vh - 1 < line

view_pos_3(vp, vh, line) ==
    IF clamp_3(vp, vh, line)
    THEN vp + (line - (vp + vh - 1))
    ELSE vp

\* the clamps of view_pos that fire in one redraw
clamps_fired(e, height) ==
    LET doc_height == get_height(e)
        view_height == view_height_of(e, height)
        vp1 == view_pos_1(e.view_pos, e.cursor_line)
        vp2 == view_pos_2(vp1, view_height, doc_height)
    IN  {i \in {1} : clamp_1(e.view_pos, e.cursor_line)}
            \cup {i \in {2} : clamp_2(vp1, view_height, doc_height)}
            \cup {i \in {3} : clamp_3(vp2, view_height, e.cursor_line)}

\* redraw whose third clamp compares with view_pos + view_height
redraw_late_scroll(e, height) ==
    LET doc_height == Len(e.lines)
        view_height == Max(Min(height, doc_height), 1)
        vp1 == IF e.view_pos > e.cursor_line THEN e.cursor_line ELSE e.view_pos
        vp2 == IF vp1 + view_height > doc_height
               THEN vp1 - ((vp1 + view_height) - doc_height)
               ELSE vp1
        vp3 == IF vp2 + view_height < e.cursor_line
               THEN vp2 + (e.cursor_line - (vp2 + view_height))
               ELSE vp2
    IN  [e EXCEPT !.current_view_height = view_height,
                  !.view_pos = vp3,
                  !.cursor_column = Min(@, Len(e.lines[e.cursor_line + 1]))]

\* redraw that leaves the recorded view height as it was
redraw_height_not_recorded(e, height) ==
    LET doc_height == get_height(e)
        view_height == view_height_of(e, height)
        vp1 == view_pos_1(e.view_pos, e.cursor_line)
        vp2 == view_pos_2(vp1, view_height, doc_height)
    IN  [e EXCEPT !.view_pos = view_pos_3(vp2, view_height, e.cursor_line),
                  !.cursor_column = Min(@, get_width(e))]

\* redraw's effect on the editor: the recorded height, the three clamps of
\* view_pos in their order, and the clamp of the cursor column
redraw(e, height) ==
    LET doc_height == get_height(e)
        view_height == view_height_of(e, height)
        vp1 == view_pos_1(e.view_pos, e.cursor_line)
        vp2 == view_pos_2(vp1, view_height, doc_height)
    IN  [e EXCEPT !.current_view_height = view_height,
                  !.view_pos = view_pos_3(vp2, view_height, e.cursor_line),
                  !.cursor_column = Min(@, get_width(e))]

\* usize::ilog10 for n >= 1 (it panics for 0)
RECURSIVE ilog10(_)
ilog10(n) == IF n < 10 THEN 0 ELSE 1 + ilog10(n \div 10)

\* the width reserved for the line numbers
line_number_offset(e) == ilog10(get_height(e)) + 1

\* the runtime faults of redraw: ilog10 of 0, an unsigned subtraction below
\* zero, an index or a slice outside the lines
redraw_panics(e, height) ==
    LET doc_height == get_height(e)
        view_height == view_height_of(e, height)
        vp1 == view_pos_1(e.view_pos, e.cursor_line)
        vp2 == view_pos_2(vp1, view_height, doc_height)
        vp3 == view_pos_3(vp2, view_height, e.cursor_line)
    IN  \/ doc_height = 0                              \* ilog10 of 0
        \/ e.cursor_line < 0
        \/ e.cursor_line >= doc_height                 \* lines[cursor_line]
        \/ view_height > doc_height                    \* view_pos -= overflow
        \/ vp2 + view_height < 1                       \* view_pos + view_height - 1
        \/ vp3 + view_height > doc_height              \* the slice of lines
        \/ line_number_offset(e) < ilog10(vp3 + view_height)
        \/ e.cursor_line < vp3                         \* cursor_line - view_pos

\* the decimal digits Print writes for a line number
RECURSIVE Decimal(_)
Decimal(n) == IF n < 10 THEN <<n>> ELSE Append(Decimal(n \div 10), n % 10)

\* the screen column MoveToColumn puts the first digit of a line number on
number_column(e, line_number) == line_number_offset(e) - ilog10(line_number)

\* the screen column of the first cell of a line's content: after the
\* digits of its number and one space
content_column(e, line_number) ==
    number_column(e, line_number) + Len(Decimal(line_number)) + 1

\* the cells a character takes on the screen: four spaces are printed for a
\* tab, any other character is written as it is and takes its display width
drawn_cells(c) == IF c = TAB THEN TabCells ELSE unicode_width(c)

RECURSIVE SumCells(_)
SumCells(s) == IF s = <<>> THEN 0 ELSE drawn_cells(Head(s)) + SumCells(Tail(s))

\* the screen column on which column c of the cursor line is drawn
drawn_column(e, c) ==
    content_column(e, e.cursor_line + 1)
        + SumCells(SubSeq(e.lines[e.cursor_line + 1], 1, c))

\* a final MoveTo one column short (+ 1 for + 2)
cursor_screen_column_short(e) == line_number_offset(e) + 1 + get_cursor_offset(e)

\* the column of the final MoveTo of redraw
cursor_screen_column(e) == line_number_offset(e) + 2 + get_cursor_offset(e)

\* the row MoveTo leaves the terminal cursor on at the end of redraw
screen_row(e) == e.cursor_line - e.view_pos

\* the scroll command redraw issues when the terminal cursor is on `row`
scroll_command(e, height, row) ==
    IF view_height_of(e, height) # e.current_view_height
    THEN IF view_height_of(e, height) > e.current_view_height
         THEN <<"ScrollUp", row>>
         ELSE <<"ScrollDown", row>>
    ELSE <<"None", 0>>

\* the serialization at the end of run: lines joined by "\n"
RECURSIVE serialize(_)
serialize(ls) ==
    IF Len(ls) = 0 THEN <<>>
    ELSE IF Len(ls) = 1 THEN ls[1]
         ELSE serialize(SubSeq(ls, 1, Len(ls) - 1)) \o <<LF>> \o ls[Len(ls)]

----------------------------------------------------------------------------
(* Events returned by read() *)

(* An event is <<kind, code, c, modifiers>>: the variant of Event, and for *)
(* a key its KeyCode, the character of KeyCode::Char and the modifiers.    *)

KeyEv(code, c, modifiers) == <<"Key", code, c, modifiers>>

ResizeEv == <<"Resize", "", "", "">>

FocusEv == <<"Focus", "", "", "">>

NoEvent == <<"None", "", "", "">>

Kind(ev) == ev[1]

Code(ev) == ev[2]

Char(ev) == ev[3]

Modifiers(ev) == ev[4]

\* characters the model types: KeyCode::Char(c) without modifiers
TypedChars == {"a"}

Heights == 0..MaxHeight

\* the match on key_event.code in the editing loop, for the keys that do
\* not leave the loop
handle_key(e, ev) ==
    CASE Code(ev) = "Backspace" -> erase_character(e)
      [] Code(ev) = "Enter" -> new_line(e)
      [] Code(ev) = "Left" -> move_cursor_left(e)
      [] Code(ev) = "Right" -> move_cursor_right(e)
      [] Code(ev) = "Up" -> move_cursor_up(e)
      [] Code(ev) = "Down" -> move_cursor_down(e)
      [] Code(ev) = "Char" /\ Char(ev) = "h" /\ Modifiers(ev) = "CONTROL" -> erase_character(e)
      [] Code(ev) = "Char" /\ ~(Char(ev) = "s" /\ Modifiers(ev) = "CONTROL") -> add_character(e, Char(ev))
      [] Code(ev) = "Tab" -> add_character(e, TAB)
      [] OTHER -> e

----------------------------------------------------------------------------
(* The state machine *)

self ==
    [lines |-> lines, cursor_column |-> cursor_column, cursor_line |-> cursor_line,
     view_pos |-> view_pos, current_view_height |-> current_view_height]

SetEditor(e) ==
    /\ lines' = e.lines
    /\ cursor_column' = e.cursor_column
    /\ cursor_line' = e.cursor_line
    /\ view_pos' = e.view_pos
    /\ current_view_height' = e.current_view_height

editor == <<lines, cursor_column, cursor_line, view_pos, current_view_height>>

Snapshot(e) ==
    [lines |-> e.lines, cursor_line |-> e.cursor_line, cursor_column |-> e.cursor_column]

\* run(mut self) consumes the editor: when it returns, Ok or Err, the editor
\* and the locals of run no longer exist
Dropped ==
    /\ lines' = <<>>
    /\ cursor_column' = 0
    /\ cursor_line' = 0
    /\ view_pos' = 0
    /\ current_view_height' = 0
    /\ term_height' = 0

Live == pc \in {"run", "editing", "confirm", "panicked"}

RECURSIVE CountChars(_)
CountChars(ls) == IF ls = <<>> THEN 0 ELSE Len(Head(ls)) + CountChars(Tail(ls))

RECURSIVE SeqsUpTo(_, _)
SeqsUpTo(S, n) ==
    IF n = 0 THEN {<<>>}
    ELSE LET shorter == SeqsUpTo(S, n - 1)
         IN  shorter \cup {Append(s, x) : s \in {t \in shorter : Len(t) = n - 1}, x \in S}

\* the files the session is started on: a missing or empty file, one line,
\* two lines
Inputs == {<<>>, <<"a">>, <<"a", LF, "a">>}

\* main: the file is read and the editor constructed from it
InitFrom(inputs) ==
    /\ file \in inputs
    /\ LET e == new(file)
       IN  /\ lines = e.lines
           /\ cursor_column = e.cursor_column
           /\ cursor_line = e.cursor_line
           /\ view_pos = e.view_pos
           /\ current_view_height = e.current_view_height
           /\ before = Snapshot(e)
    /\ term_height = 0
    /\ raw_mode = FALSE
    /\ save = FALSE
    /\ content = <<>>
    /\ pc = "run"
    /\ event = NoEvent

\* run up to the first read(): enable_raw_mode()? and the first redraw()?
RunStart ==
    /\ pc = "run"
    /\ \/ /\ pc' = "failed"              \* enable_raw_mode fails
          /\ Dropped
          /\ UNCHANGED raw_mode
       \/ /\ raw_mode' = TRUE
          /\ pc' = "failed"              \* a terminal call of redraw fails
          /\ Dropped
       \/ /\ raw_mode' = TRUE
          /\ \E h \in Heights :
               IF redraw_panics(self, h)
               THEN /\ pc' = "panicked"
                    /\ UNCHANGED <<editor, term_height>>
               ELSE /\ SetEditor(redraw(self, h))
                    /\ term_height' = h
                    /\ pc' = "editing"
    /\ UNCHANGED <<file, save, content, event, before>>

\* one iteration of the editing loop for an event that does not leave it:
\* the key handler, then redraw()? for key and resize events.  When a
\* terminal call of the redraw fails run returns the error; when the redraw
\* panics the process stops with the editor as the handler left it.
EditStep(ev) ==
    /\ pc = "editing"
    /\ \/ /\ pc' = "failed"              \* a terminal call of redraw fails
          /\ Dropped
          /\ UNCHANGED <<event, before>>
       \/ /\ event' = ev
          /\ before' = Snapshot(self)
          /\ LET handled == IF Kind(ev) = "Key" THEN handle_key(self, ev) ELSE self
             IN  \E h \in Heights :
                   /\ term_height' = h
                   /\ IF redraw_panics(handled, h)
                      THEN SetEditor(handled) /\ pc' = "panicked"
                      ELSE SetEditor(redraw(handled, h)) /\ pc' = "editing"
    /\ UNCHANGED <<file, raw_mode, save, content>>

Backspace == EditStep(KeyEv("Backspace", "", "NONE"))

CtrlH == EditStep(KeyEv("Char", "h", "CONTROL"))

Enter == Len(lines) < MaxLines /\ EditStep(KeyEv("Enter", "", "NONE"))

Left == EditStep(KeyEv("Left", "", "NONE"))

Right == EditStep(KeyEv("Right", "", "NONE"))

Up == EditStep(KeyEv("Up", "", "NONE"))

Down == EditStep(KeyEv("Down", "", "NONE"))

CharKey ==
    /\ CountChars(lines) < MaxChars
    /\ \E c \in TypedChars : EditStep(KeyEv("Char", c, "NONE"))

TabKey == CountChars(lines) < MaxChars /\ EditStep(KeyEv("Tab", "", "NONE"))

IgnoredKey == EditStep(KeyEv("F1", "", "NONE"))

Resize == EditStep(ResizeEv)

\* an event that is neither a key nor a resize: no handler, no redraw
OtherEvent ==
    /\ pc = "editing"
    /\ event' = FocusEv
    /\ before' = Snapshot(self)
    /\ UNCHANGED <<file, editor, term_height, raw_mode, save, content, pc>>

\* read()? fails in the editing loop or in the confirmation loop
ReadFail ==
    /\ pc \in {"editing", "confirm"}
    /\ pc' = "failed"
    /\ Dropped
    /\ UNCHANGED <<file, raw_mode, save, content, event, before>>

\* the end of run once save is decided by the event ev: the screen is
\* cleared, disable_raw_mode()?, the lines are serialized and returned
Finish(ev, s) ==
    /\ save' = s
    /\ \/ /\ pc' = "failed"              \* a terminal write or disable_raw_mode fails
          /\ UNCHANGED <<raw_mode, content, event, before>>
       \/ /\ raw_mode' = FALSE
          /\ content' = serialize(lines)
          /\ pc' = "returned"
          /\ event' = ev
          /\ before' = Snapshot(self)
    /\ Dropped
    /\ UNCHANGED file

\* Ctrl+S: save = true, break, clear screen, no confirmation
CtrlS ==
    /\ pc = "editing"
    /\ Finish(KeyEv("Char", "s", "CONTROL"), TRUE)

\* Escape: break, clear screen, print the question, wait for an answer
Esc ==
    /\ pc = "editing"
    /\ \/ /\ pc' = "failed"              \* a terminal write fails
          /\ Dropped
          /\ UNCHANGED <<event, before>>
       \/ /\ pc' = "confirm"
          /\ event' = KeyEv("Esc", "", "NONE")
          /\ before' = Snapshot(self)
          /\ UNCHANGED <<editor, term_height>>
    /\ UNCHANGED <<file, raw_mode, save, content>>

ConfirmYes ==
    /\ pc = "confirm"
    /\ Finish(KeyEv("Char", "y", "NONE"), TRUE)

\* an answer of 'n' that sets save as the answer 'y' does
ConfirmNo_saves ==
    /\ pc = "confirm"
    /\ Finish(KeyEv("Char", "n", "NONE"), TRUE)

ConfirmNo ==
    /\ pc = "confirm"
    /\ Finish(KeyEv("Char", "n", "NONE"), FALSE)

\* a confirmation loop that takes every key other than 'y' for a 'n'
ConfirmIgnored_as_no ==
    /\ pc = "confirm"
    /\ Finish(KeyEv("Char", "a", "NONE"), FALSE)

\* any other key, and any event that is not a key: keep waiting
ConfirmIgnored ==
    /\ pc = "confirm"
    /\ \/ event' = KeyEv("Char", "a", "NONE")
       \/ event' = KeyEv("Enter", "", "NONE")
       \/ event' = ResizeEv
    /\ before' = Snapshot(self)
    /\ UNCHANGED <<file, editor, term_height, raw_mode, save, content, pc>>

\* a main that writes the returned content whatever save says
MainExit_unconditional ==
    /\ pc = "returned"
    /\ pc' = "exited"
    /\ file' = content
    /\ UNCHANGED <<editor, term_height, raw_mode, save, content, event, before>>

\* main after run returned Ok: the file is written when save is set
MainExit ==
    /\ pc = "returned"
    /\ pc' = "exited"
    /\ file' = IF save THEN content ELSE file
    /\ UNCHANGED <<editor, term_height, raw_mode, save, content, event, before>>

Init == InitFrom(Inputs)

Next ==
    \/ RunStart
    \/ Backspace
    \/ CtrlH
    \/ Enter
    \/ Left
    \/ Right
    \/ Up
    \/ Down
    \/ CharKey
    \/ TabKey
    \/ IgnoredKey
    \/ Resize
    \/ OtherEvent
    \/ ReadFail
    \/ CtrlS
    \/ Esc
    \/ ConfirmYes
    \/ ConfirmNo
    \/ ConfirmIgnored
    \/ MainExit

Spec == Init /\ [][Next]_vars

----------------------------------------------------------------------------
(* Navigation on two-line documents with tabs, wide and zero-width         *)
(* characters: the session restricted to the arrow keys.                   *)

NavLines ==
    SeqsUpTo({TAB, "a", "W", "z"}, MaxMixed) \cup SeqsUpTo({"a"}, MaxPlain)

NavInputs == {l1 \o <<LF>> \o l2 : l1 \in NavLines, l2 \in NavLines}

NavInit == InitFrom(NavInputs)

NavNext ==
    \/ RunStart
    \/ Left
    \/ Right
    \/ Up
    \/ Down

NavSpec == NavInit /\ [][NavNext]_vars

(* Editing sessions that start from an empty file: every document within   *)
(* the bounds is typed in.                                                 *)

EmptyInit == InitFrom({<<>>})

EmptySpec == EmptyInit /\ [][Next]_vars

(* Moving through long documents: a first line of characters of every     *)
(* width, followed by empty lines, for the document heights around the     *)
(* powers of ten.                                                          *)

GutterHeights == (1..MaxGutter) \cup {99, 100, 101}

Newlines(n) == [i \in 1..n |-> LF]

GutterInputs == {<<"a", TAB, "W", "z">> \o Newlines(n) : n \in GutterHeights}

GutterInit == InitFrom(GutterInputs)

GutterNext ==
    \/ RunStart
    \/ Left
    \/ Right
    \/ Up
    \/ Down
    \/ Resize

GutterSpec == GutterInit /\ [][GutterNext]_vars

(* Loading and saving without edits: files with any mix of "a", LF and CR. *)

LoadInputs == SeqsUpTo({"a", LF, CR}, MaxLoad)

LoadInit == InitFrom(LoadInputs)

LoadNext ==
    \/ RunStart
    \/ IgnoredKey
    \/ Resize
    \/ OtherEvent
    \/ ReadFail
    \/ CtrlS
    \/ Esc
    \/ ConfirmYes
    \/ ConfirmNo
    \/ ConfirmIgnored
    \/ MainExit

LoadSpec == LoadInit /\ [][LoadNext]_vars

----------------------------------------------------------------------------
(* Properties *)

IsErase(ev) ==
    Kind(ev) = "Key" /\ (Code(ev) = "Backspace" \/ (Code(ev) = "Char" /\ Char(ev) = "h" /\ Modifiers(ev) = "CONTROL"))

IsKey(ev, code) == Kind(ev) = "Key" /\ Code(ev) = code

\* the event was handled by the editing loop and left the session in it
Handled == pc \in {"editing", "panicked"} /\ Kind(event) = "Key"

\* C1: whenever the editor exists, the cursor line is in [0, line count) and
\* the cursor column is in [0, length of the cursor line].
C1_CursorValid ==
    Live =>
        /\ cursor_line \in 0..(Len(lines) - 1)
        /\ cursor_column \in 0..Len(lines[cursor_line + 1])

\* a Backspace at column 0 joined the last line to the one before it, and
\* the cursor sits at the end of the (new) last line
C1_Witness ==
    /\ Handled /\ IsErase(event)
    /\ before.cursor_column = 0
    /\ before.cursor_line = Len(before.lines) - 1
    /\ before.cursor_line > 0
    /\ cursor_line = Len(lines) - 1
    /\ cursor_column = Len(lines[cursor_line + 1])
    /\ cursor_column > 0

\* C2: the document has at least one line, from construction on and after
\* every editing operation.
C2_NonEmpty == Live => Len(lines) >= 1

\* a Backspace at column 0 of the second line joined a two-line document
\* into a single line
C2_Witness ==
    /\ Handled /\ IsErase(event)
    /\ Len(before.lines) = 2
    /\ Len(lines) = 1
    /\ before.cursor_column = 0

\* the view height of the last redraw
ViewHeight == Max(1, Min(term_height, Len(lines)))

\* C3: after every redraw view_pos <= cursor_line <= view_pos + view_height - 1
\* with view_height = max(1, min(terminal height, document height)).
C3_Viewport ==
    pc = "editing" =>
        /\ view_pos <= cursor_line
        /\ cursor_line <= view_pos + ViewHeight - 1

\* the cursor moved below a window smaller than the document and the
\* window followed it
C3_Witness ==
    /\ pc = "editing" /\ IsKey(event, "Down")
    /\ term_height < Len(lines)
    /\ view_pos > 0
    /\ cursor_line = before.cursor_line + 1
    /\ cursor_line = view_pos + ViewHeight - 1

\* the document and the cursor of an editor value
Doc(e) ==
    [lines |-> e.lines, cursor_line |-> e.cursor_line, cursor_column |-> e.cursor_column]

\* C4: Backspace at column 0 of line k > 0 removes line k, appends it to
\* line k-1 and leaves the cursor on line k-1 at the length line k-1 had
\* before the join.
C4_JoinCursor ==
    (Handled /\ IsErase(event) /\ before.cursor_column = 0 /\ before.cursor_line > 0) =>
        LET k == before.cursor_line
            joined == before.lines[k] \o before.lines[k + 1]
        IN  /\ lines = [VecRemove(before.lines, k) EXCEPT ![k] = joined]
            /\ cursor_line = k - 1
            /\ cursor_column = Len(before.lines[k])

\* the keys that insert a character: printable characters and Tab
InsChars == TypedChars \cup {TAB}

InsEv(c) == IF c = TAB THEN KeyEv("Tab", "", "NONE") ELSE KeyEv("Char", c, "NONE")

\* one iteration of the editing loop on an editor value
Press(e, ev, h) == redraw(handle_key(e, ev), h)

RECURSIVE TypeAll(_, _, _)
TypeAll(e, s, h) ==
    IF s = <<>> THEN e ELSE TypeAll(Press(e, InsEv(Head(s)), h), Tail(s), h)

RECURSIVE EraseN(_, _, _)
EraseN(e, n, h) ==
    IF n = 0 THEN e ELSE EraseN(Press(e, KeyEv("Backspace", "", "NONE"), h), n - 1, h)

\* C5: from every reachable editing state, n insertions followed by n
\* Backspaces give back the document and the cursor position.
C5_InsertErase ==
    pc = "editing" =>
        \A s \in SeqsUpTo(InsChars, MaxRun) :
            Doc(EraseN(TypeAll(self, s, term_height), Len(s), term_height)) = Doc(self)

\* a Backspace has just undone an insertion: the state it was pressed in is
\* the one an insertion at the present cursor gives
C5_Witness ==
    /\ pc = "editing" /\ IsErase(event)
    /\ CountChars(lines) > 0
    /\ \E c \in InsChars : Doc(handle_key(self, InsEv(c))) = before

\* s without one line break ("\n" or "\r\n") at its end
TrimNewline(s) ==
    IF Len(s) > 0 /\ s[Len(s)] = LF
    THEN IF Len(s) > 1 /\ s[Len(s) - 1] = CR
         THEN SubSeq(s, 1, Len(s) - 2)
         ELSE SubSeq(s, 1, Len(s) - 1)
    ELSE s

\* C6: a document constructed from a string and serialized with no edits
\* is the string, up to the presence of a trailing newline.
C6_RoundTrip ==
    pc = "returned" => content \in {file, TrimNewline(file)}

SingleWidth(l) == \A i \in 1..Len(l) : l[i] # TAB /\ char_width(l[i]) = 1

SingleWidthDoc(ls) == \A i \in 1..Len(ls) : SingleWidth(ls[i])

\* C7 as claimed: on single-width text move_up and move_down leave the
\* column as it was, from every cursor position.
C7_ColumnKept ==
    (pc = "editing" /\ (IsKey(event, "Up") \/ IsKey(event, "Down")) /\ SingleWidthDoc(lines)) =>
        cursor_column = before.cursor_column

\* C7 as amended: on single-width text a vertical move onto an existing
\* line keeps the column when the target line has that many characters and
\* gives the target line's length otherwise; move_up on the first line gives
\* column 0 and move_down on the last line the length of that line.
C7_ColumnKeptOrClamped ==
    (pc = "editing" /\ SingleWidthDoc(lines)) =>
        /\ IsKey(event, "Up") =>
              IF before.cursor_line > 0
              THEN /\ cursor_line = before.cursor_line - 1
                   /\ cursor_column = Min(before.cursor_column, Len(lines[cursor_line + 1]))
              ELSE cursor_line = 0 /\ cursor_column = 0
        /\ IsKey(event, "Down") =>
              IF before.cursor_line + 1 < Len(before.lines)
              THEN /\ cursor_line = before.cursor_line + 1
                   /\ cursor_column = Min(before.cursor_column, Len(lines[cursor_line + 1]))
              ELSE /\ cursor_line = before.cursor_line
                   /\ cursor_column = Len(lines[cursor_line + 1])

\* move_down carried a column > 0 onto the next line unchanged
C7_Witness ==
    /\ pc = "editing" /\ IsKey(event, "Down")
    /\ SingleWidthDoc(lines)
    /\ cursor_line = before.cursor_line + 1
    /\ cursor_column = before.cursor_column
    /\ cursor_column > 1

\* a tab followed by characters
TabLine(l) == Len(l) >= 2 /\ l[1] = TAB

NoZeroWidth(l) == \A i \in 1..Len(l) : char_width(l[i]) > 0

SameCursor(e, f) == e.cursor_line = f.cursor_line /\ e.cursor_column = f.cursor_column

DownUp(e, h) == Press(Press(e, KeyEv("Down", "", "NONE"), h), KeyEv("Up", "", "NONE"), h)

UpDown(e, h) == Press(Press(e, KeyEv("Up", "", "NONE"), h), KeyEv("Down", "", "NONE"), h)

\* C8 as claimed: from a line made of a tab followed by characters, moving
\* to a neighbouring line of the same total display width and back returns
\* the cursor to its line and column.
C8_RoundTrip ==
    (pc = "editing" /\ TabLine(lines[cursor_line + 1])) =>
        LET l == lines[cursor_line + 1]
        IN  /\ (cursor_line + 1 < Len(lines) /\ SumWidth(lines[cursor_line + 2]) = SumWidth(l))
                   => SameCursor(DownUp(self, term_height), self)
            /\ (cursor_line > 0 /\ SumWidth(lines[cursor_line]) = SumWidth(l))
                   => SameCursor(UpDown(self, term_height), self)

\* C8 as amended: the same, for a line with no zero-width character and a
\* neighbouring line of width-1 characters only.
C8_RoundTripSingleWidth ==
    (pc = "editing" /\ TabLine(lines[cursor_line + 1]) /\ NoZeroWidth(lines[cursor_line + 1])) =>
        LET l == lines[cursor_line + 1]
        IN  /\ (/\ cursor_line + 1 < Len(lines)
                /\ SingleWidth(lines[cursor_line + 2])
                /\ SumWidth(lines[cursor_line + 2]) = SumWidth(l))
                   => SameCursor(DownUp(self, term_height), self)
            /\ (/\ cursor_line > 0
                /\ SingleWidth(lines[cursor_line])
                /\ SumWidth(lines[cursor_line]) = SumWidth(l))
                   => SameCursor(UpDown(self, term_height), self)

\* the cursor has come back by Up, behind the tab of its line, from the
\* place Down leads to on a single-width line of the same width
C8_Witness ==
    /\ pc = "editing" /\ IsKey(event, "Up")
    /\ cursor_line + 1 < Len(lines)
    /\ before.cursor_line = cursor_line + 1
    /\ TabLine(lines[cursor_line + 1]) /\ NoZeroWidth(lines[cursor_line + 1])
    /\ SingleWidth(lines[cursor_line + 2])
    /\ SumWidth(lines[cursor_line + 2]) = SumWidth(lines[cursor_line + 1])
    /\ cursor_column >= 1
    /\ Doc(handle_key(self, KeyEv("Down", "", "NONE"))) = before

AtStart(b) == b.cursor_line = 0 /\ b.cursor_column = 0

AtEnd(b) ==
    /\ b.cursor_line = Len(b.lines) - 1
    /\ b.cursor_column = Len(b.lines[Len(b.lines)])

\* C9: move_left at the start of the document, move_right at its end and
\* erase_character at its start change neither the document nor the cursor.
C9_BoundaryNoOps ==
    Handled =>
        /\ (IsKey(event, "Left") /\ AtStart(before)) => Doc(self) = before
        /\ (IsKey(event, "Right") /\ AtEnd(before)) => Doc(self) = before
        /\ (IsErase(event) /\ AtStart(before)) => Doc(self) = before

\* Left was pressed at the start of a document whose first line is not empty
C9_Witness ==
    /\ Handled /\ IsKey(event, "Left")
    /\ AtStart(before)
    /\ Len(lines[1]) > 0
    /\ Len(lines) > 1

\* C10: raw mode is on whenever an event is awaited, and off whenever run
\* has returned, with Ok or with an error.
C10_RawReleased ==
    /\ pc \in {"editing", "confirm"} => raw_mode
    /\ pc \in {"returned", "failed"} => ~raw_mode

EscEv == KeyEv("Esc", "", "NONE")

CtrlSEv == KeyEv("Char", "s", "CONTROL")

YesEv == KeyEv("Char", "y", "NONE")

NoEv == KeyEv("Char", "n", "NONE")

\* C11: the confirmation is entered exactly when editing is left by Escape,
\* Ctrl+S leaves editing straight for the teardown with save set, and a run
\* that passed the confirmation returns save = TRUE on 'y' and FALSE on 'n'.
C11_SaveDecision ==
    [][/\ (pc # "confirm" /\ pc' = "confirm") =>
              (pc = "editing" /\ event' = EscEv /\ ~save')
       /\ (pc = "editing" /\ pc' \notin {"editing", "panicked", "failed"}) =>
              \/ pc' = "confirm" /\ event' = EscEv
              \/ pc' = "returned" /\ event' = CtrlSEv /\ save'
       /\ (pc = "confirm" /\ pc' = "returned") =>
              \/ event' = YesEv /\ save'
              \/ event' = NoEv /\ ~save'
       /\ (pc = "returned" /\ pc' = "exited") => save' = save]_vars

\* the question was answered with 'n' and run returned save = FALSE
C11_Witness ==
    /\ pc = "returned"
    /\ event = NoEv
    /\ ~save
    /\ Len(before.lines) > 1

\* C12: the file changes only in main, after run returned Ok with save set,
\* and then it becomes the serialization of the final document; a run that
\* failed, or returned save = FALSE, leaves the file as it was.
C12_WriteOnlyOnSave ==
    [][/\ file' # file =>
              (pc = "returned" /\ pc' = "exited" /\ save)
       /\ (pc = "returned" /\ pc' = "exited" /\ save) =>
              (file' = content /\ content = serialize(before.lines))
       /\ pc' = "failed" => file' = file]_vars

\* main wrote a document of two lines over a file with other content
C12_Witness ==
    /\ pc = "exited"
    /\ save
    /\ Len(before.lines) = 2
    /\ file = serialize(before.lines)
    /\ file \notin Inputs

\* C13: Enter at (k, c) cuts line k to its first c characters, puts the rest
\* in a new line right after it, keeps every other line, and leaves the
\* cursor at (k + 1, 0).
C13_EnterSplits ==
    (Handled /\ IsKey(event, "Enter")) =>
        LET k == before.cursor_line
            c == before.cursor_column
            old == before.lines
        IN  /\ Len(lines) = Len(old) + 1
            /\ lines[k + 1] = SubSeq(old[k + 1], 1, c)
            /\ lines[k + 2] = SubSeq(old[k + 1], c + 1, Len(old[k + 1]))
            /\ \A i \in 1..k : lines[i] = old[i]
            /\ \A i \in (k + 2)..Len(old) : lines[i + 1] = old[i]
            /\ cursor_line = k + 1
            /\ cursor_column = 0

\* Enter was pressed in the middle of the first line of a two-line document
C13_Witness ==
    /\ Handled /\ IsKey(event, "Enter")
    /\ before.cursor_line = 0
    /\ before.cursor_column = 1
    /\ Len(before.lines[1]) = 2
    /\ Len(before.lines) = 2
    /\ Len(lines) = 3

\* C14: in the confirmation every event but a 'y' or 'n' key keeps the
\* document, the cursor, the viewport and save and keeps waiting; only 'y'
\* or 'n' end it, and the content returned is the serialization of the
\* document as it was when Escape was pressed.
C14_ConfirmFrame ==
    /\ [](pc = "confirm" => Doc(self) = before)
    /\ [][pc = "confirm" =>
              /\ (event' \notin {YesEv, NoEv} /\ pc' # "failed") =>
                     (pc' = "confirm" /\ UNCHANGED <<editor, term_height, save>>)
              /\ pc' # "confirm" =>
                     (pc' = "failed" \/ (pc' = "returned" /\ event' \in {YesEv, NoEv}))
              /\ pc' = "returned" => content' = serialize(before.lines)]_vars

\* a resize arrived while the question was on the screen, with the window
\* scrolled down: nothing moved
C14_Witness ==
    /\ pc = "confirm"
    /\ event = ResizeEv
    /\ Len(lines) = 2
    /\ view_pos = 1

\* the events the editing loop reads in this model
EditEvents ==
    {KeyEv("Backspace", "", "NONE"), KeyEv("Char", "h", "CONTROL"),
     KeyEv("Enter", "", "NONE"), KeyEv("Left", "", "NONE"),
     KeyEv("Right", "", "NONE"), KeyEv("Up", "", "NONE"),
     KeyEv("Down", "", "NONE"), KeyEv("Char", "a", "NONE"),
     KeyEv("Tab", "", "NONE"), KeyEv("F1", "", "NONE"), ResizeEv}

\* the editor as the handler of ev leaves it, before the redraw
handled_by(e, ev) == IF Kind(ev) = "Key" THEN handle_key(e, ev) ELSE e

\* C15: in the redraw that follows one event read after a redraw, whatever
\* height the terminal then has, at most one of the three clamps of view_pos
\* fires.
C15_OneClamp ==
    pc = "editing" =>
        \A ev \in EditEvents, h \in Heights :
            Cardinality(clamps_fired(handled_by(self, ev), h)) <= 1

\* C15, amended: the third clamp never fires together with another one, and
\* at most one clamp fires when the terminal height is the one the redraw
\* before read.
C15_ClampsExclusive ==
    pc = "editing" =>
        \A ev \in EditEvents, h \in Heights :
            LET fired == clamps_fired(handled_by(self, ev), h)
            IN  /\ 3 \in fired => fired = {3}
                /\ h = term_height => Cardinality(fired) <= 1

\* the cursor is at the start of the third line, the only one in the
\* window; a Backspace joins it to the second line while the terminal
\* grows to two rows, and the first and the second clamp both fire
C15_Witness ==
    /\ pc = "editing"
    /\ Len(lines) = 3
    /\ cursor_line = 2 /\ cursor_column = 0
    /\ view_pos = 2
    /\ term_height = 1
    /\ clamps_fired(handled_by(self, KeyEv("Backspace", "", "NONE")), 2) = {1, 2}

\* the editor with the cursor moved to column c of its line
AtColumn(e, c) == [e EXCEPT !.cursor_column = c]

\* the columns of the cursor line that have the display offset of column c
SameOffset(e, c) ==
    {d \in 0..get_width(e) :
        get_cursor_offset(AtColumn(e, d)) = get_cursor_offset(AtColumn(e, c))}

\* C16: offset_to_cursor of the display offset of a column is that column
\* (the cursor reaches every column of every line).
C16_Inverse ==
    pc = "editing" =>
        offset_to_cursor(self, get_cursor_offset(self)) = cursor_column

\* C16, amended: offset_to_cursor of the display offset of a column c is
\* the largest column with that offset, which is c on a line without
\* zero-width characters.
C16_InverseUpToZeroWidth ==
    pc = "editing" =>
        LET back == offset_to_cursor(self, get_cursor_offset(self))
        IN  /\ back \in SameOffset(self, cursor_column)
            /\ \A d \in SameOffset(self, cursor_column) : d <= back
            /\ NoZeroWidth(lines[cursor_line + 1]) => back = cursor_column

\* the cursor stands between a tab and a wide character
C16_Witness ==
    /\ pc = "editing" /\ IsKey(event, "Right")
    /\ lines[cursor_line + 1] = <<TAB, "W">>
    /\ cursor_column = 1
    /\ get_cursor_offset(self) = TabWidth
    /\ offset_to_cursor(self, TabWidth) = 1

\* the display offset of the cursor when the last event was read
OffsetBefore ==
    SumWidth(SubSeq(before.lines[before.cursor_line + 1], 1, before.cursor_column))

\* Up was handled on a line > 0, or Down on a line that is not the last
MovedVertically ==
    /\ pc = "editing"
    /\ \/ IsKey(event, "Up") /\ before.cursor_line > 0
       \/ IsKey(event, "Down") /\ before.cursor_line < Len(before.lines) - 1

\* C19: after move_up from a line > 0 or move_down from a line that is not
\* the last, the column is the largest column of the target line whose
\* display offset is at most the display offset the cursor had, so the
\* display offset does not increase.
C19_Landing ==
    MovedVertically =>
        LET fits == {c \in 0..get_width(self) :
                        get_cursor_offset(AtColumn(self, c)) <= OffsetBefore}
        IN  /\ cursor_line # before.cursor_line
            /\ cursor_column \in fits
            /\ \A c \in fits : c <= cursor_column
            /\ get_cursor_offset(self) <= OffsetBefore

\* Down from display offset 3 onto a line that starts with a tab: the cursor
\* lands before the tab, not inside it
C19_Witness ==
    /\ MovedVertically /\ IsKey(event, "Down")
    /\ OffsetBefore = 3
    /\ lines[cursor_line + 1] = <<TAB, "a">>
    /\ cursor_column = 0

\* C17: a redraw issues a scroll command exactly when the view height it
\* computes differs from the recorded one (0 before the first redraw):
\* ScrollUp when it is larger, ScrollDown when it is smaller, by the row the
\* terminal cursor is on; it records the computed height, so that a second
\* redraw with the same view height issues no scroll.
C17_ScrollOnChange ==
    /\ pc = "run" =>
           \A h \in Heights, row \in Heights :
               scroll_command(self, h, row) = <<"ScrollUp", row>>
    /\ pc = "editing" =>
           /\ current_view_height = ViewHeight
           /\ \A ev \in EditEvents, h \in Heights :
                  LET e1 == handled_by(self, ev)
                      vh == view_height_of(e1, h)
                      cmd == scroll_command(e1, h, screen_row(self))
                      e2 == redraw(e1, h)
                  IN  /\ cmd[1] # "None" <=> vh # current_view_height
                      /\ vh > current_view_height =>
                             cmd = <<"ScrollUp", cursor_line - view_pos>>
                      /\ vh < current_view_height =>
                             cmd = <<"ScrollDown", cursor_line - view_pos>>
                      /\ e2.current_view_height = vh
                      /\ \A h2 \in Heights :
                             view_height_of(e2, h2) = vh =>
                                 scroll_command(e2, h2, screen_row(e2)) = <<"None", 0>>

\* Enter made the document one line longer in a terminal with room for it:
\* the view height grew and the redraw scrolled up; a Backspace that joins
\* the two lines again makes it scroll down
C17_Witness ==
    /\ pc = "editing" /\ IsKey(event, "Enter")
    /\ Len(lines) = 2
    /\ term_height = 2
    /\ current_view_height = 2
    /\ scroll_command(handled_by(self, KeyEv("Backspace", "", "NONE")), 2, screen_row(self))
           = <<"ScrollDown", 1>>

\* C20: no redraw hits a runtime fault, for any state the events lead to and
\* any terminal height: no unsigned subtraction goes below zero, the slice
\* drawn lies inside the document, and ilog10 is not taken of 0.
C20_NoFault == pc # "panicked"

\* a redraw that read a terminal height of 0 followed the cursor to the
\* third line of the document
C20_Witness ==
    /\ pc = "editing" /\ IsKey(event, "Down")
    /\ term_height = 0
    /\ Len(lines) = 3
    /\ cursor_line = 2
    /\ view_pos = 2

====
